---- MODULE Spec2Model ----
(***************************************************************************)
(* ubimkvol (ubi-utils/src/ubimkvol.c): one invocation of the tool, from   *)
(* main's argument-count checks through parse_opt, libubi_open,            *)
(* param_sanity_check, ubi_get_dev_info, ubi_mkvol, ubi_get_vol_info1 and  *)
(* the final report.  Command-line strings are sequences of one-character  *)
(* strings; C integers are kept at their width as little-endian sequences  *)
(* of 16-bit limbs.                                                        *)
(***************************************************************************)
EXTENDS Integers, Sequences, FiniteSets, TLC

(***************************************************************************)
(* Bounds of the model.                                                    *)
(***************************************************************************)
\* argc is drawn from 1..MaxArgc
MaxArgc == 5
\* ubi_get_info reports a device count in 0..MaxDevCount
MaxDevCount == 2

(***************************************************************************)
(* Program constants.                                                      *)
(***************************************************************************)
MAX_NODE_LEN == 255
UBI_MAX_VOLUME_NAME == 127
UBI_VOL_NUM_AUTO == -1
UBI_DYNAMIC_VOLUME == "UBI_DYNAMIC_VOLUME"
UBI_STATIC_VOLUME == "UBI_STATIC_VOLUME"
\* a char * is NULL or points to a string: <<>> or <<the string>>
NULL == <<>>
Ptr(s) == <<s>>
Str(p) == p[1]

(***************************************************************************)
(* Fixed-width C integers as sequences of 16-bit limbs, least significant  *)
(* first.  long long, unsigned long long and unsigned long (LP64) have     *)
(* Limbs64 limbs, int has Limbs32; LimbsWide limbs hold the exact value of *)
(* an intermediate result before it is cut to its width.                   *)
(***************************************************************************)
LimbBase == 2^16
Limbs64 == 64 \div 16
Limbs32 == 32 \div 16
LimbsWide == 2 * Limbs64

Zero(n) == [i \in 1..n |-> 0]

\* n in 0..2^31-1 as a number of k limbs
FromInt(n, k) == [i \in 1..k |-> IF i = 1 THEN n % LimbBase
                                 ELSE IF i = 2 THEN n \div LimbBase ELSE 0]

\* w * m + c for 0 <= m, c < 2^15, cut to Len(w) limbs
RECURSIVE MulAdd(_, _, _)
MulAdd(w, m, c) ==
    IF w = <<>> THEN <<>>
    ELSE LET t == Head(w) * m + c
         IN  <<t % LimbBase>> \o MulAdd(Tail(w), m, t \div LimbBase)

\* a + b + c, cut to Len(a) limbs (Len(a) = Len(b), c in 0..1)
RECURSIVE AddC(_, _, _)
AddC(a, b, c) ==
    IF a = <<>> THEN <<>>
    ELSE LET t == Head(a) + Head(b) + c
         IN  <<t % LimbBase>> \o AddC(Tail(a), Tail(b), t \div LimbBase)

\* w * m for an int m in 0..2^31-1, cut to Len(w) limbs
RECURSIVE MulInt(_, _)
MulInt(w, m) ==
    IF m < 1024 THEN MulAdd(w, m, 0)
    ELSE AddC(MulAdd(w, m % 1024, 0), MulAdd(MulInt(w, m \div 1024), 1024, 0), 0)

Truncate(w, k) == SubSeq(w, 1, k)
Widen(v, k) == v \o Zero(k - Len(v))
\* the value of w fits in k limbs, unsigned
FitsUnsigned(w, k) == \A i \in (k + 1)..Len(w) : w[i] = 0
\* the sign bit of a two's complement number
IsNegative(v) == v[Len(v)] >= LimbBase \div 2
\* the value of w fits in k limbs, signed and non-negative
FitsSigned(w, k) == FitsUnsigned(w, k) /\ ~IsNegative(Truncate(w, k))
IsZero(v) == \A i \in 1..Len(v) : v[i] = 0
AllOnes(k) == [i \in 1..k |-> LimbBase - 1]
\* two's complement negation at the width of v
Negate(v) == AddC([i \in 1..Len(v) |-> LimbBase - 1 - v[i]], Zero(Len(v)), 1)

\* a 32-bit two's complement number as an integer
ToInt32(v) == IF IsNegative(v) THEN (v[2] - LimbBase) * LimbBase + v[1]
              ELSE v[2] * LimbBase + v[1]

(***************************************************************************)
(* strtoull / strtoul with base 0 (ISO C 7.22.1.4): optional white space,  *)
(* optional sign, 0x/0X prefix for hexadecimal, leading 0 for octal,       *)
(* decimal otherwise; the longest run of digits of the base is the subject *)
(* sequence.  endp is the 1-based index of the first character not         *)
(* consumed, 1 (= the start of the string) when no conversion is done.     *)
(* On overflow the result is the largest value of the type; a leading      *)
(* minus sign negates the converted value in the return type.              *)
(***************************************************************************)
DigitChars == <<"0", "1", "2", "3", "4", "5", "6", "7", "8", "9",
                "a", "b", "c", "d", "e", "f">>
UpperChars == <<"0", "1", "2", "3", "4", "5", "6", "7", "8", "9",
                "A", "B", "C", "D", "E", "F">>
\* the value of a digit character, 99 for a character that is no digit
DigitVal(c) ==
    IF \E i \in 1..16 : DigitChars[i] = c
    THEN (CHOOSE i \in 1..16 : DigitChars[i] = c) - 1
    ELSE IF \E i \in 1..16 : UpperChars[i] = c
    THEN (CHOOSE i \in 1..16 : UpperChars[i] = c) - 1
    ELSE 99

isspace(c) == c \in {" ", "\t", "\n"}

RECURSIVE SkipSpace(_, _)
SkipSpace(s, i) == IF i <= Len(s) /\ isspace(s[i]) THEN SkipSpace(s, i + 1) ELSE i

RECURSIVE DigitsEnd(_, _, _)
DigitsEnd(s, i, base) ==
    IF i <= Len(s) /\ DigitVal(s[i]) < base THEN DigitsEnd(s, i + 1, base) ELSE i

\* the exact value of the digits s[i..j-1] in the base, LimbsWide limbs
RECURSIVE Magnitude(_, _, _, _, _)
Magnitude(s, i, j, base, acc) ==
    IF i >= j THEN acc
    ELSE Magnitude(s, i + 1, j, base, MulAdd(acc, base, DigitVal(s[i])))

ScanNumber(s) ==
    LET i0 == SkipSpace(s, 1)
        signed == i0 <= Len(s) /\ s[i0] \in {"+", "-"}
        i1 == IF signed THEN i0 + 1 ELSE i0
        hex == /\ i1 + 2 <= Len(s)
               /\ s[i1] = "0"
               /\ s[i1 + 1] \in {"x", "X"}
               /\ DigitVal(s[i1 + 2]) < 16
        base == IF hex THEN 16
                ELSE IF i1 <= Len(s) /\ s[i1] = "0" THEN 8 ELSE 10
        i2 == IF hex THEN i1 + 2 ELSE i1
        i3 == DigitsEnd(s, i2, base)
    IN  [neg  |-> signed /\ s[i0] = "-",
         any  |-> i3 > i2,
         endp |-> IF i3 > i2 THEN i3 ELSE 1,
         mag  |-> Magnitude(s, i2, i3, base, Zero(LimbsWide))]

\* strtoull(s, &endp, 0), and strtoul on LP64: [val, endp]
strtoull(s) ==
    LET n == ScanNumber(s)
    IN  [endp |-> n.endp,
         val  |-> IF ~n.any THEN Zero(Limbs64)
                  ELSE IF ~FitsUnsigned(n.mag, Limbs64) THEN AllOnes(Limbs64)
                  ELSE IF n.neg THEN Negate(Truncate(n.mag, Limbs64))
                  ELSE Truncate(n.mag, Limbs64)]

strtoul(s) == strtoull(s)

\* sprintf("%d", n) for n >= 0
RECURSIVE Decimal(_)
Decimal(n) == IF n < 10 THEN <<DigitChars[n + 1]>>
              ELSE Decimal(n \div 10) \o <<DigitChars[(n % 10) + 1]>>

(***************************************************************************)
(* ubiutils_get_multiplier: the multiplier of a size suffix, -1 for a      *)
(* suffix that is none of KiB, MiB, GiB.                                   *)
(***************************************************************************)
ubiutils_get_multiplier(str) ==
    IF str = <<"K", "i", "B">> THEN 1024
    ELSE IF str = <<"M", "i", "B">> THEN 1024 * 1024
    ELSE IF str = <<"G", "i", "B">> THEN 1024 * 1024 * 1024
    ELSE IF str = <<>> THEN 1
    ELSE -1

(***************************************************************************)
(* The command line.  argv[1] is a whole string; the elements after it are *)
(* revealed one getopt_long call at a time.                                *)
(***************************************************************************)
Rep(c, n) == [i \in 1..n |-> c]

DevUbi0 == <<"/", "d", "e", "v", "/", "u", "b", "i", "0">>
Argv1Set == {DevUbi0, Rep("a", MAX_NODE_LEN + 1), <<"-", "h">>}

TypeArgs == {<<"s", "t", "a", "t", "i", "c">>,
             <<"d", "y", "n", "a", "m", "i", "c">>,
             <<"a", "r", "c", "h", "i", "v", "e">>}

SizeArgs == {<<"1", "0", "M", "i", "B">>,
             <<"1", "K", "i", "B">>,
             <<"2", "G", "i", "B">>,
             <<"5">>,
             <<"0">>,
             <<"-", "1">>,
             <<>>,
             <<"M", "i", "B">>,
             <<"3", "X", "i", "B">>,
             <<"-", "1", "8", "4", "4", "6", "7", "4", "4", "0", "7", "3",
               "7", "0", "9", "5", "5", "1", "6", "1", "5">>,
             <<"9", "2", "2", "3", "3", "7", "2", "0", "3", "6", "8", "5",
               "4", "7", "7", "5", "8", "0", "7", "K", "i", "B">>,
             <<"9", "2", "2", "3", "3", "7", "2", "0", "3", "6", "8", "5",
               "4", "7", "7", "5", "8", "0", "8">>}

AlignArgs == {<<"4">>,
              <<"0">>,
              <<"-", "1">>,
              <<"a", "b", "c">>,
              <<"4", "x">>,
              <<>>,
              <<"4", "2", "9", "4", "9", "6", "7", "2", "9", "7">>,
              <<"2", "1", "4", "7", "4", "8", "3", "6", "4", "8">>,
              <<"-", "4", "2", "9", "4", "9", "6", "7", "2", "9", "5">>}

DevnArgs == {<<"0">>, <<"1">>, <<"-", "1">>, <<"x">>}

VolIdArgs == {<<"7">>, <<"-", "1">>, <<>>}

NameArgs == {<<>>, <<"d", "a", "t", "a">>,
             Rep("n", UBI_MAX_VOLUME_NAME), Rep("n", UBI_MAX_VOLUME_NAME + 1)}

OptArgs(key) ==
    CASE key = "t" -> TypeArgs
      [] key = "s" -> SizeArgs
      [] key = "a" -> AlignArgs
      [] key = "d" -> DevnArgs
      [] key = "n" -> VolIdArgs
      [] key = "N" -> NameArgs

(***************************************************************************)
(* getopt_long(argc - 1, &argv[1], "a:d:n:N:s:t:hVm", long_options, NULL)  *)
(* with `rest` elements not yet scanned: the set of possible results       *)
(* [key, optarg, used].  argv[1] takes the place of the program name and   *)
(* is never scanned.  Non-option elements are skipped (GNU permutation).   *)
(* An option with an argument uses one element (-s10, --size=10) or two    *)
(* (-s 10); when the argument is missing, or the option is unknown, the    *)
(* result is '?' (the option string does not start with ':', so ':' is     *)
(* never returned).  -1 at the end of the elements or at "--".             *)
(* getopt_long(k) is what a call that finds option character k may return; *)
(* such a call uses 1..rest elements, all that are left when the argument  *)
(* is missing.                                                             *)
(***************************************************************************)
EndOfOptions == "-1"

OptionKeys == {"t", "s", "a", "d", "n", "N"}
FlagKeys == {"h", "V", "m"}

getopt_long(k) ==
    IF k \in OptionKeys
    THEN {[key |-> k, optarg |-> Ptr(o), why |-> "option"] : o \in OptArgs(k)}
    ELSE IF k \in FlagKeys
    THEN {[key |-> k, optarg |-> NULL, why |-> "flag"]}
    ELSE {[key |-> "?", optarg |-> NULL, why |-> w] : w \in {"unknown", "missing"}}

(***************************************************************************)
(* struct args myargs and its initializer.                                 *)
(***************************************************************************)
myargs ==
    [vol_type  |-> UBI_DYNAMIC_VOLUME,
     devn      |-> -1,
     bytes     |-> Zero(Limbs64),
     alignment |-> 1,
     vol_id    |-> UBI_VOL_NUM_AUTO,
     name      |-> NULL,
     nlen      |-> 0,
     node      |-> <<>>,
     maxavs    |-> 0]

(***************************************************************************)
(* The cases of parse_opt's switch.  Each gives the set of outcomes        *)
(* [args, res, kind]: res is "break" (next option), "return" (return -1),  *)
(* "exit0", "exit" (exit(-1)) or "abort".                                  *)
(***************************************************************************)
Outcome(a, res, kind) == [args |-> a, res |-> res, kind |-> kind]

\* args->bytes *= mult overflowed long long: undefined behaviour.  The build
\* either wraps (two's complement) or traps (-ftrapv).
SignedOverflow(a, exact) ==
    {Outcome([a EXCEPT !.bytes = Truncate(exact, Limbs64)], "break", "none"),
     Outcome(a, "abort", "Aborted")}

case_t(a, arg) ==
    IF arg = <<"d", "y", "n", "a", "m", "i", "c">>
    THEN {Outcome([a EXCEPT !.vol_type = UBI_DYNAMIC_VOLUME], "break", "none")}
    ELSE IF arg = <<"s", "t", "a", "t", "i", "c">>
    THEN {Outcome([a EXCEPT !.vol_type = UBI_STATIC_VOLUME], "break", "none")}
    ELSE {Outcome(a, "return", "InvalidVolumeType")}

case_s(a, arg) ==
    LET r  == strtoull(arg)
        a1 == [a EXCEPT !.bytes = r.val]
    IN  IF r.endp = 1 \/ IsNegative(a1.bytes)
        THEN {Outcome(a1, "return", "InvalidSize")}
        ELSE IF r.endp <= Len(arg)
        THEN LET mult == ubiutils_get_multiplier(SubSeq(arg, r.endp, Len(arg)))
             IN  IF mult = -1
                 THEN {Outcome(a1, "return", "InvalidSize")}
                 ELSE LET exact == MulInt(Widen(a1.bytes, LimbsWide), mult)
                      IN  IF FitsSigned(exact, Limbs64)
                          THEN {Outcome([a1 EXCEPT !.bytes = Truncate(exact, Limbs64)],
                                        "break", "none")}
                          ELSE SignedOverflow(a1, exact)
        ELSE {Outcome(a1, "break", "none")}

\* int x = strtoul(arg, &endp, 0): the unsigned long is cut to the int's width
IntOfUlong(arg) == ToInt32(Truncate(strtoul(arg).val, Limbs32))
\* *endp != '\0' || endp == optarg
Incomplete(arg) == LET r == strtoul(arg) IN r.endp <= Len(arg) \/ r.endp = 1

case_a(a, arg) ==
    LET a1 == [a EXCEPT !.alignment = IntOfUlong(arg)]
    IN  IF Incomplete(arg) \/ a1.alignment <= 0
        THEN {Outcome(a1, "return", "InvalidArgument")}
        ELSE {Outcome(a1, "break", "none")}

case_d(a, arg) ==
    LET a1 == [a EXCEPT !.devn = IntOfUlong(arg)]
    IN  IF Incomplete(arg) \/ a1.devn < 0
        THEN {Outcome(a1, "return", "InvalidArgument")}
        ELSE {Outcome([a1 EXCEPT !.node = <<"/", "d", "e", "v", "/", "u", "b", "i">>
                                          \o Decimal(a1.devn)],
                      "break", "none")}

case_n(a, arg) ==
    LET a1 == [a EXCEPT !.vol_id = IntOfUlong(arg)]
    IN  IF Incomplete(arg) \/ a1.vol_id < 0
        THEN {Outcome(a1, "return", "InvalidArgument")}
        ELSE {Outcome(a1, "break", "none")}

case_N(a, arg) ==
    {Outcome([a EXCEPT !.name = Ptr(arg), !.nlen = Len(arg)], "break", "none")}

parse_opt_case(a, g) ==
    CASE g.key = "t" -> case_t(a, Str(g.optarg))
      [] g.key = "s" -> case_s(a, Str(g.optarg))
      [] g.key = "a" -> case_a(a, Str(g.optarg))
      [] g.key = "d" -> case_d(a, Str(g.optarg))
      [] g.key = "n" -> case_n(a, Str(g.optarg))
      [] g.key = "N" -> case_N(a, Str(g.optarg))
      [] g.key = "h" -> {Outcome(a, "exit0", "none")}
      [] g.key = "V" -> {Outcome(a, "exit0", "none")}
      [] g.key = "m" -> {Outcome([a EXCEPT !.maxavs = 1], "break", "none")}
      [] g.key = "?" -> {Outcome(a, "exit", IF g.why = "missing" THEN "MissingArgument"
                                            ELSE "UnknownArgument")}

(***************************************************************************)
(* main's checks before parse_opt.                                         *)
(***************************************************************************)
main_check(c, v1) ==
    IF c < 2 THEN "NoDeviceName"
    ELSE IF c < 3 THEN "TooFewArguments"
    ELSE IF Len(Str(v1)) > MAX_NODE_LEN THEN "NodeNameTooLong"
    ELSE "ok"

(***************************************************************************)
(* param_sanity_check, given what ubi_get_info would answer: the failure   *)
(* ("ok" for none) and whether ubi_get_info was called.                    *)
(***************************************************************************)
\* variant: the name is checked before the size
param_sanity_check_name_first(a, info) ==
    IF a.name = NULL
    THEN [res |-> "MissingName", queried |-> FALSE]
    ELSE IF IsZero(a.bytes) /\ a.maxavs = 0
    THEN [res |-> "MissingSize", queried |-> FALSE]
    ELSE IF info.err
    THEN [res |-> "DeviceQueryFailed", queried |-> TRUE]
    ELSE IF a.devn >= info.dev_count
    THEN [res |-> "DeviceNotFound", queried |-> TRUE]
    ELSE IF Len(Str(a.name)) > UBI_MAX_VOLUME_NAME
    THEN [res |-> "NameTooLong", queried |-> TRUE]
    ELSE [res |-> "ok", queried |-> TRUE]

param_sanity_check(a, info) ==
    IF IsZero(a.bytes) /\ a.maxavs = 0
    THEN [res |-> "MissingSize", queried |-> FALSE]
    ELSE IF a.name = NULL
    THEN [res |-> "MissingName", queried |-> FALSE]
    ELSE IF info.err
    THEN [res |-> "DeviceQueryFailed", queried |-> TRUE]
    ELSE IF a.devn >= info.dev_count
    THEN [res |-> "DeviceNotFound", queried |-> TRUE]
    ELSE IF Len(Str(a.name)) > UBI_MAX_VOLUME_NAME
    THEN [res |-> "NameTooLong", queried |-> TRUE]
    ELSE [res |-> "ok", queried |-> TRUE]

(***************************************************************************)
(* The request main builds (lines 306-315).                                *)
(***************************************************************************)
\* variant: the available size is taken only when no size was given
resolve_bytes_keep_explicit(a, dev) ==
    IF a.maxavs # 0 /\ IsZero(a.bytes) THEN dev.avail_bytes ELSE a.bytes

resolve_bytes(a, dev) == IF a.maxavs # 0 THEN dev.avail_bytes ELSE a.bytes

mkvol_request(a) ==
    [vol_id    |-> a.vol_id,
     alignment |-> a.alignment,
     bytes     |-> a.bytes,
     vol_type  |-> a.vol_type,
     name      |-> a.name]

(***************************************************************************)
(* The unit of the reported size (lines 338-343).                          *)
(***************************************************************************)
report_unit(rsvd_bytes) ==
    IF rsvd_bytes > 1024 * 1024 * 1024 THEN "GiB"
    ELSE IF rsvd_bytes > 1024 * 1024 THEN "MiB"
    ELSE "KiB"

(***************************************************************************)
(* What the device manager may answer.                                     *)
(***************************************************************************)
UbiInfos == {[err |-> TRUE, dev_count |-> 0]}
            \cup {[err |-> FALSE, dev_count |-> n] : n \in 0..MaxDevCount}

AvailBytes == {Zero(Limbs64), FromInt(5000000, Limbs64)}
DevInfos == {[dev_num |-> 0, avail_bytes |-> b] : b \in AvailBytes}

RsvdBytes == {1024 * 1023, 1024 * 1024, 1024 * 1024 + 1,
              1024 * 1024 * 1024 - 1, 1024 * 1024 * 1024, 1024 * 1024 * 1024 + 1}

\* the id ubi_mkvol writes back into the request
AssignedIds(r) == IF r.vol_id = UBI_VOL_NUM_AUTO THEN {0, 1} ELSE {r.vol_id}

NoInfo == [none |-> TRUE]

(***************************************************************************)
(* State.                                                                  *)
(***************************************************************************)
VARIABLES
    pc,        \* where main is
    argc,      \* number of command-line elements, program name included
    argv1,     \* argv[1], NULL when argc = 1
    rest,      \* elements getopt_long has not scanned yet
    key,       \* parse_opt's key: what getopt_long returned last
    optarg,    \* getopt's optarg
    args,      \* myargs
    given,     \* the options parse_opt has processed
    libubi,    \* "unset", "null" or "handle"
    calls,     \* the device-manager calls made so far, with their arguments
    ubi,       \* param_sanity_check's struct ubi_info
    dev_info,  \* main's struct ubi_dev_info
    vol_info,  \* main's struct ubi_vol_info
    ret,       \* the exit status once pc = "done"
    fail,      \* the failure reported, "none" for none
    unit       \* the unit the size was reported in

vars == <<pc, argc, argv1, rest, key, optarg, args, given, libubi, calls,
          ubi, dev_info, vol_info, ret, fail, unit>>

Call(fn, arg) == [fn |-> fn, arg |-> arg]
NoArg == <<>>

Init ==
    /\ pc = "start"
    /\ argc \in 1..MaxArgc
    /\ argv1 \in (IF argc = 1 THEN {NULL} ELSE {Ptr(s) : s \in Argv1Set})
    /\ rest = 0
    /\ key = "unset"
    /\ optarg = NULL
    /\ args = myargs
    /\ given = {}
    /\ libubi = "unset"
    /\ calls = <<>>
    /\ ubi = NoInfo
    /\ dev_info = NoInfo
    /\ vol_info = NoInfo
    /\ ret = 0
    /\ fail = "none"
    /\ unit = "none"

\* the process ends with the status and the failure given
Terminate(status, kind) ==
    /\ pc' = "done"
    /\ ret' = status
    /\ fail' = kind

\* variant: the error path returns without closing
out_libubi_leak(kind, made) ==
    /\ calls' = calls \o made
    /\ Terminate(-1, kind)

\* out_libubi: libubi_close(libubi); return -1
out_libubi(kind, made) ==
    /\ calls' = calls \o made \o <<Call("libubi_close", NoArg)>>
    /\ Terminate(-1, kind)

(***************************************************************************)
(* main, lines 265-283: the checks of argc and argv[1], strcpy of the node *)
(***************************************************************************)
MainStart ==
    /\ pc = "start"
    /\ LET c == main_check(argc, argv1)
       IN  IF c = "ok"
           THEN /\ args' = [args EXCEPT !.node = Str(argv1)]
                /\ rest' = argc - 2
                /\ pc' = "parse"
                /\ UNCHANGED <<ret, fail>>
           ELSE /\ Terminate(-1, c)
                /\ UNCHANGED <<args, rest>>
    /\ UNCHANGED <<argc, argv1, key, optarg, given, libubi, calls, ubi,
                   dev_info, vol_info, unit>>

(***************************************************************************)
(* parse_opt, lines 120-215: one iteration of the loop                     *)
(***************************************************************************)
ParseOpt ==
    /\ pc = "parse"
    /\ \E k \in OptionKeys \cup FlagKeys \cup {"?"}, used \in 1..rest :
       \E g \in getopt_long(k) :
         /\ g.why = "missing" => used = rest
         /\ key' = g.key
         /\ optarg' = g.optarg
         /\ rest' = rest - used
         /\ \E o \in parse_opt_case(args, g) :
              /\ args' = o.args
              /\ CASE o.res = "break"  -> /\ pc' = "parse"
                                          /\ given' = given \cup {g.key}
                                          /\ UNCHANGED <<ret, fail>>
                   [] o.res = "return" -> Terminate(-1, o.kind) /\ UNCHANGED given
                   [] o.res = "exit0"  -> Terminate(0, o.kind) /\ UNCHANGED given
                   [] o.res = "exit"   -> Terminate(-1, o.kind) /\ UNCHANGED given
                   [] o.res = "abort"  -> Terminate(134, o.kind) /\ UNCHANGED given
    /\ UNCHANGED <<argc, argv1, libubi, calls, ubi, dev_info, vol_info, unit>>

(***************************************************************************)
(* parse_opt returns 0 (lines 125-126, 217), then main lines 284-292:      *)
(* libubi_open                                                             *)
(***************************************************************************)
ParseEndOpen ==
    /\ pc = "parse"
    /\ key' = EndOfOptions
    /\ optarg' = NULL
    /\ rest' = 0
    /\ calls' = calls \o <<Call("libubi_open", NoArg)>>
    /\ \E h \in {"null", "handle"} :
         /\ libubi' = h
         /\ IF h = "null"
            THEN Terminate(-1, "OpenFailed")
            ELSE pc' = "sanity" /\ UNCHANGED <<ret, fail>>
    /\ UNCHANGED <<argc, argv1, args, given, ubi, dev_info, vol_info, unit>>

\* variant: libubi is queried before the size and the name are looked at
SanityCheck_query_first ==
    /\ pc = "sanity"
    /\ \E info \in UbiInfos :
         LET r == param_sanity_check(args, info)
             made == <<Call("ubi_get_info", NoArg)>>
         IN  /\ ubi' = info
             /\ IF r.res = "ok"
                THEN /\ calls' = calls \o made
                     /\ pc' = "devinfo"
                     /\ UNCHANGED <<ret, fail>>
                ELSE out_libubi(r.res, made)
    /\ UNCHANGED <<argc, argv1, rest, key, optarg, args, given, libubi,
                   dev_info, vol_info, unit>>

(***************************************************************************)
(* main lines 294-296: param_sanity_check                                  *)
(***************************************************************************)
SanityCheck ==
    /\ pc = "sanity"
    /\ \E info \in UbiInfos :
         LET r == param_sanity_check(args, info)
             made == IF r.queried THEN <<Call("ubi_get_info", NoArg)>> ELSE <<>>
         IN  /\ ubi' = IF r.queried THEN info ELSE ubi
             /\ IF r.res = "ok"
                THEN /\ calls' = calls \o made
                     /\ pc' = "devinfo"
                     /\ UNCHANGED <<ret, fail>>
                ELSE out_libubi(r.res, made)
    /\ UNCHANGED <<argc, argv1, rest, key, optarg, args, given, libubi,
                   dev_info, vol_info, unit>>

(***************************************************************************)
(* main lines 298-304: ubi_get_dev_info                                    *)
(***************************************************************************)
GetDevInfo ==
    /\ pc = "devinfo"
    /\ LET made == <<Call("ubi_get_dev_info", args.node)>>
       IN  \/ /\ out_libubi("DevInfoFailed", made)
              /\ UNCHANGED dev_info
           \/ /\ dev_info' \in DevInfos
              /\ calls' = calls \o made
              /\ pc' = "mkvol"
              /\ UNCHANGED <<ret, fail>>
    /\ UNCHANGED <<argc, argv1, rest, key, optarg, args, given, libubi,
                   ubi, vol_info, unit>>

\* variant: a failed ubi_mkvol is tried once more
Mkvol_retry ==
    /\ pc = "mkvol"
    /\ LET a1   == [args EXCEPT !.bytes = resolve_bytes(args, dev_info)]
           req  == mkvol_request(a1)
           made == <<Call("ubi_mkvol", [node |-> a1.node, req |-> req])>>
       IN  \/ /\ args' = a1
              /\ IF Len(calls) < 4
                 THEN /\ calls' = calls \o made
                      /\ UNCHANGED <<pc, ret, fail>>
                 ELSE out_libubi("CreateFailed", made)
           \/ /\ \E id \in AssignedIds(req) : args' = [a1 EXCEPT !.vol_id = id]
              /\ calls' = calls \o made
              /\ pc' = "volinfo"
              /\ UNCHANGED <<ret, fail>>
    /\ UNCHANGED <<argc, argv1, rest, key, optarg, given, libubi, ubi,
                   dev_info, vol_info, unit>>

(***************************************************************************)
(* main lines 306-324: the size is resolved, the request built, ubi_mkvol  *)
(* called; on success the id it wrote into the request goes to myargs.     *)
(* (Line 308 prints req.bytes before it is assigned; what is printed is    *)
(* not kept in the state.)                                                 *)
(***************************************************************************)
Mkvol ==
    /\ pc = "mkvol"
    /\ LET a1   == [args EXCEPT !.bytes = resolve_bytes(args, dev_info)]
           req  == mkvol_request(a1)
           made == <<Call("ubi_mkvol", [node |-> a1.node, req |-> req])>>
       IN  \/ /\ args' = a1
              /\ out_libubi("CreateFailed", made)
           \/ /\ \E id \in AssignedIds(req) : args' = [a1 EXCEPT !.vol_id = id]
              /\ calls' = calls \o made
              /\ pc' = "volinfo"
              /\ UNCHANGED <<ret, fail>>
    /\ UNCHANGED <<argc, argv1, rest, key, optarg, given, libubi, ubi,
                   dev_info, vol_info, unit>>

(***************************************************************************)
(* main lines 327-351: ubi_get_vol_info1, the report, libubi_close         *)
(***************************************************************************)
Report ==
    /\ pc = "volinfo"
    /\ LET made == <<Call("ubi_get_vol_info1",
                          [dev_num |-> dev_info.dev_num, vol_id |-> args.vol_id])>>
       IN  \/ /\ out_libubi("PostCreateQueryFailed", made)
              /\ UNCHANGED <<vol_info, unit>>
           \/ /\ \E b \in RsvdBytes :
                   /\ vol_info' = [vol_id |-> args.vol_id, rsvd_bytes |-> b]
                   /\ unit' = report_unit(b)
              /\ calls' = calls \o made \o <<Call("libubi_close", NoArg)>>
              /\ Terminate(0, "none")
    /\ UNCHANGED <<argc, argv1, rest, key, optarg, args, given, libubi, ubi,
                   dev_info>>

Next ==
    \/ MainStart
    \/ ParseOpt
    \/ ParseEndOpen
    \/ SanityCheck
    \/ GetDevInfo
    \/ Mkvol
    \/ Report

Spec == Init /\ [][Next]_vars

(***************************************************************************)
(* Properties                                                              *)
(***************************************************************************)
CountCalls(fn) == Cardinality({i \in DOMAIN calls : calls[i].fn = fn})
CallNames == [i \in DOMAIN calls |-> calls[i].fn]
Done == pc = "done"

\* C1: when libubi_open succeeded, libubi_close is called exactly once by
\* the time the process returns, whichever step ends the run, never before
\* that, and libubi_open is called at most once.
C1_HandleReleased ==
    /\ CountCalls("libubi_open") <= 1
    /\ CountCalls("libubi_close") <= 1
    /\ libubi # "handle" => CountCalls("libubi_close") = 0
    /\ (libubi = "handle" /\ ~Done) => CountCalls("libubi_close") = 0
    /\ (libubi = "handle" /\ Done) =>
          /\ CountCalls("libubi_close") = 1
          /\ calls[Len(calls)].fn = "libubi_close"

C1_Witness ==
    /\ Done
    /\ libubi = "handle"
    /\ fail = "CreateFailed"
    /\ CountCalls("libubi_close") = 1

\* the state right after param_sanity_check has decided: myargs is as the
\* validator saw it
SanityDecided ==
    \/ pc = "devinfo"
    \/ Done /\ fail \in {"MissingSize", "MissingName", "DeviceQueryFailed",
                         "DeviceNotFound", "NameTooLong"}
SanityVerdict == IF pc = "devinfo" THEN "ok" ELSE fail
Queried == ubi # NoInfo

NoSizePath == IsZero(args.bytes) /\ args.maxavs = 0
NameAbsent == args.name = NULL
QueryFailed == Queried /\ ubi.err
DeviceMissing == Queried /\ ~ubi.err /\ args.devn >= ubi.dev_count
NameOverLong == ~NameAbsent /\ Len(Str(args.name)) > UBI_MAX_VOLUME_NAME

\* C2: param_sanity_check reports the first of its checks that is violated,
\* in the order MissingSize, MissingName, DeviceQueryFailed, DeviceNotFound,
\* NameTooLong (the device is asked only once the first two have passed);
\* with no size and no maxavsize it reports MissingSize whatever the rest.
C2_FirstViolatedCheck ==
    SanityDecided =>
      /\ NoSizePath => SanityVerdict = "MissingSize"
      /\ (~NoSizePath /\ NameAbsent) => SanityVerdict = "MissingName"
      /\ (NoSizePath \/ NameAbsent) <=> ~Queried
      /\ (~NoSizePath /\ ~NameAbsent /\ QueryFailed) =>
            SanityVerdict = "DeviceQueryFailed"
      /\ (~NoSizePath /\ ~NameAbsent /\ DeviceMissing) =>
            SanityVerdict = "DeviceNotFound"
      /\ (~NoSizePath /\ ~NameAbsent /\ Queried /\ ~QueryFailed /\ ~DeviceMissing
            /\ NameOverLong) => SanityVerdict = "NameTooLong"
      /\ (~NoSizePath /\ ~NameAbsent /\ Queried /\ ~QueryFailed /\ ~DeviceMissing
            /\ ~NameOverLong) => SanityVerdict = "ok"
      /\ ("s" \notin given /\ "m" \notin given) => SanityVerdict = "MissingSize"

\* two checks are violated and the earlier one is reported
C2_Witness ==
    /\ Done
    /\ fail = "DeviceNotFound"
    /\ NameOverLong
    /\ DeviceMissing

Rank(p) ==
    CASE p = "start"   -> 0
      [] p = "parse"   -> 1
      [] p = "sanity"  -> 2
      [] p = "devinfo" -> 3
      [] p = "mkvol"   -> 4
      [] p = "volinfo" -> 5
      [] p = "done"    -> 6

\* ubi_mkvol has been called only after parse_opt returned 0,
\* param_sanity_check passed and ubi_get_dev_info succeeded
MkvolGuarded ==
    /\ CountCalls("ubi_mkvol") <= 1
    /\ CountCalls("ubi_mkvol") = 1 =>
          /\ key = EndOfOptions
          /\ libubi = "handle"
          /\ ~NoSizePath /\ ~NameAbsent /\ Queried /\ ~QueryFailed
          /\ ~DeviceMissing /\ ~NameOverLong
          /\ dev_info # NoInfo
          /\ SubSeq(CallNames, 1, 4) =
                <<"libubi_open", "ubi_get_info", "ubi_get_dev_info", "ubi_mkvol">>

ForwardStep ==
    /\ \/ Rank(pc') > Rank(pc)
       \/ pc = "parse" /\ pc' = "parse" /\ rest' < rest
    /\ (fail' # "none" => pc' = "done")
    /\ (pc' = "done" /\ ret' # 0 => fail' # "none")
    /\ (CountCalls("ubi_mkvol")' > CountCalls("ubi_mkvol") => pc = "mkvol")

\* C3: the run only moves forward through the steps of main; a failing step
\* ends the run at once, no step is taken twice (only parse_opt's loop
\* stays, one command-line element further), and ubi_mkvol is called at most
\* once, after parse_opt, param_sanity_check and ubi_get_dev_info succeeded.
C3_ForwardOnly == [](MkvolGuarded) /\ [][ForwardStep]_vars

C3_Witness ==
    /\ Done
    /\ fail = "none"
    /\ unit # "none"
    /\ CountCalls("ubi_mkvol") = 1

\* the literal of a size or alignment argument, as the C rules read it
Literal(o) == ScanNumber(o)
LiteralNegative(o) == Literal(o).any /\ Literal(o).neg /\ ~IsZero(Literal(o).mag)
Suffix(o) == SubSeq(o, Literal(o).endp, Len(o))

\* C4: an accepted size argument leaves a non-negative sizeBytes equal to
\* its numeric prefix times the multiplier of its suffix; an argument with
\* no numeric prefix, a negative one or an unrecognized suffix fails with
\* InvalidSize.
C4_SizeResolved ==
    key = "s" =>
      LET o == Str(optarg)
          mult == ubiutils_get_multiplier(Suffix(o))
      IN  /\ pc = "parse" =>
                /\ ~IsNegative(args.bytes)
                /\ ~LiteralNegative(o)
                /\ mult # -1
                /\ Widen(args.bytes, LimbsWide) = MulInt(Literal(o).mag, mult)
          /\ (~Literal(o).any \/ LiteralNegative(o) \/ mult = -1) =>
                Done /\ fail = "InvalidSize"

\* the literal takes the whole argument
LiteralComplete(o) == Literal(o).any /\ Literal(o).endp = Len(o) + 1

\* C5: an alignment argument that is zero, negative or no complete numeric
\* literal fails with InvalidArgument; a positive integer is accepted and
\* stored unchanged.
C5_AlignmentResolved ==
    key = "a" =>
      LET o == Str(optarg)
          positive == LiteralComplete(o) /\ ~Literal(o).neg /\ ~IsZero(Literal(o).mag)
      IN  /\ ~positive => Done /\ fail = "InvalidArgument"
          /\ positive =>
                /\ pc = "parse"
                /\ args.alignment > 0
                /\ FromInt(args.alignment, LimbsWide) = Literal(o).mag

NameLen == IF NameAbsent THEN 0 ELSE Len(Str(args.name))

\* C6: with a size path active, the query succeeding and the device in
\* range, param_sanity_check accepts exactly the names that are present,
\* non-empty and at most UBI_MAX_VOLUME_NAME long: MissingName for an absent
\* or empty name, NameTooLong for a longer one; no request with an empty or
\* over-long name reaches ubi_mkvol.
C6_NameValidated ==
    /\ (SanityDecided /\ ~NoSizePath /\ ~QueryFailed /\ ~DeviceMissing) =>
          SanityVerdict = (IF NameLen = 0 THEN "MissingName"
                           ELSE IF NameLen > UBI_MAX_VOLUME_NAME THEN "NameTooLong"
                           ELSE "ok")
    /\ \A i \in DOMAIN calls :
          calls[i].fn = "ubi_mkvol" =>
             /\ calls[i].arg.req.name # NULL
             /\ Len(Str(calls[i].arg.req.name)) \in 1..UBI_MAX_VOLUME_NAME

HelpFlags == {<<"-", "h">>, <<"-", "V">>,
              <<"-", "-", "h", "e", "l", "p">>,
              <<"-", "-", "v", "e", "r", "s", "i", "o", "n">>}
\* the help or version flag is on the command line, nothing malformed before it
HelpRequested ==
    \/ argv1 # NULL /\ Str(argv1) \in HelpFlags
    \/ key \in {"h", "V"}

\* C7: an invocation with the help or version flag on its command line ends
\* with status 0, param_sanity_check not run and libubi not opened.
C7_HelpShortCircuits ==
    (Done /\ HelpRequested) => (ret = 0 /\ fail = "none" /\ calls = <<>>)

\* C8: the request passed to ubi_mkvol has the available size of the
\* ubi_get_dev_info answer when maxavsize was given, with or without a
\* size, and the size parse_opt resolved otherwise; its other fields are
\* the resolved values, auto, 1 and dynamic where the option was not given.
C8_RequestBuilt ==
    \A i \in DOMAIN calls :
       calls[i].fn = "ubi_mkvol" =>
          LET req == calls[i].arg.req
          IN  /\ "m" \in given => req.bytes = dev_info.avail_bytes
              /\ "m" \notin given => req.bytes = args.bytes
              /\ req.alignment = args.alignment
              /\ req.vol_type = args.vol_type
              /\ req.name = args.name
              /\ "n" \in given => req.vol_id = args.vol_id
              /\ "n" \notin given => req.vol_id = UBI_VOL_NUM_AUTO
              /\ "a" \notin given => req.alignment = 1
              /\ "t" \notin given => req.vol_type = UBI_DYNAMIC_VOLUME
              /\ calls[i].arg.node = args.node

C8_Witness ==
    /\ pc = "volinfo"
    /\ {"m", "s"} \subseteq given
    /\ calls[Len(calls)].fn = "ubi_mkvol"
    /\ calls[Len(calls)].arg.req.bytes = FromInt(5000000, Limbs64)

ResolverFailures == {"InvalidSize", "InvalidArgument", "InvalidVolumeType",
                     "MissingArgument", "UnknownArgument"}

\* C9 as stated: an invocation that fails in parse_opt, or with MissingSize
\* or MissingName, has made no device-manager call at all.
C9_NoDeviceCall ==
    (Done /\ fail \in ResolverFailures \cup {"MissingSize", "MissingName"}) =>
       calls = <<>>

\* C9, amended: an invocation that fails in parse_opt has made no
\* device-manager call; one that fails with MissingSize or MissingName has
\* opened libubi (and closes it on the way out) and made no other call: no
\* ubi_get_info, ubi_get_dev_info, ubi_mkvol or ubi_get_vol_info1.
C9_NoDeviceQuery ==
    /\ (Done /\ fail \in ResolverFailures) => calls = <<>>
    /\ (Done /\ fail \in {"MissingSize", "MissingName"}) =>
          CallNames = <<"libubi_open", "libubi_close">>

C9_Witness ==
    /\ Done
    /\ fail = "MissingName"
    /\ CallNames = <<"libubi_open", "libubi_close">>

\* C10: the size is reported in GiB from 1024^3 bytes on, in MiB from
\* 1024^2 bytes on, in KiB below.
C10_ReportUnit ==
    (Done /\ unit # "none") =>
       unit = (IF vol_info.rsvd_bytes >= 1024 * 1024 * 1024 THEN "GiB"
               ELSE IF vol_info.rsvd_bytes >= 1024 * 1024 THEN "MiB"
               ELSE "KiB")
====
